---- MODULE Spec2Model ----
(***************************************************************************)
(* Model of the insurance-contract on-chain program: the record layout     *)
(* (state.rs), the instruction codec (instruction.rs) and the processor    *)
(* (processor.rs).  Account data is kept as byte sequences; every call of  *)
(* Processor::process is one atomic step.                                  *)
(***************************************************************************)
EXTENDS Integers, Sequences, FiniteSets, TLC

VARIABLES data, before, call, result, codec, pending, log

vars == <<data, before, call, result, codec, pending, log>>

(***************************************************************************)
(* Bounds of the model.                                                    *)
(***************************************************************************)
\* number of distinct identifiers carried by SaveInsuranceContract inputs
NumIds == 2
\* record fundings range over minimum_balance - MaxShortfall .. minimum_balance,
\* and one funding above the minimum
MaxShortfall == 1
\* number of submitters issuing calls against the same record
NumSubmitters == 2
\* number of calls each submitter issues
MaxCalls == 2
\* instruction byte strings handed to unpack have at most MaxWireLen bytes
MaxWireLen == 6
\* record buffers handed to try_from_slice have at most MaxBufLen bytes
MaxBufLen == 7

(***************************************************************************)
(* Identities.                                                             *)
(***************************************************************************)
ProgramId == "insurance_contract"
SystemProgramId == "system_program"
RentSysvarId == "sysvar_rent"
ClockSysvarId == "sysvar_clock"
Authorities == {"X"}

(***************************************************************************)
(* Little-endian u32.  TLC integers are 32-bit signed, so identifiers are  *)
(* taken below 2^31 (top byte at most 127).                                *)
(***************************************************************************)
to_le_bytes(n) ==
    << n % 256, (n \div 256) % 256, (n \div 65536) % 256, (n \div 16777216) % 256 >>

from_le_bytes(b) ==
    b[1] + 256 * b[2] + 65536 * b[3] + 16777216 * b[4]

IdPool == << 11223344, 99, 0, 2147483647, 256, 1 >>

IdOf(i) == IF i <= Len(IdPool) THEN IdPool[i] ELSE (i * 1000003) % 2147483647

Ids == { IdOf(i) : i \in 1..NumIds }

(***************************************************************************)
(* state.rs: record layout and its Borsh codec.                            *)
(***************************************************************************)
INSURANCE_CONTRACT_DATA_LEN == 1 + 1 + 4

InsuranceContractData(i, c, id) ==
    [is_initialized |-> i, is_closed |-> c, insurance_contract_id |-> id]

DefaultData == InsuranceContractData(FALSE, FALSE, 0)

BoolByte(b) == IF b THEN 1 ELSE 0

\* variant: the two flags are written in the other order
try_to_vec_flags_swapped(d) ==
    << BoolByte(d.is_closed), BoolByte(d.is_initialized) >>
        \o to_le_bytes(d.insurance_contract_id)

\* BorshSerialize: the fields in declaration order, u32 little-endian
try_to_vec(d) ==
    << BoolByte(d.is_initialized), BoolByte(d.is_closed) >>
        \o to_le_bytes(d.insurance_contract_id)

\* variant: unread bytes are accepted (try_from_slice_unchecked)
try_from_slice_unchecked(buf) ==
    IF Len(buf) < 1 + 1 + 4 THEN [ok |-> FALSE, value |-> DefaultData]
    ELSE IF buf[1] \notin {0, 1} \/ buf[2] \notin {0, 1}
         THEN [ok |-> FALSE, value |-> DefaultData]
    ELSE [ok |-> TRUE,
          value |-> InsuranceContractData(buf[1] = 1, buf[2] = 1,
                                          from_le_bytes(SubSeq(buf, 3, 6)))]

\* BorshDeserialize::try_from_slice: reads the fields in order; fails on a
\* short buffer, on a bool byte other than 0 or 1, and on unread bytes
try_from_slice(buf) ==
    IF Len(buf) < 1 + 1 + 4 THEN [ok |-> FALSE, value |-> DefaultData]
    ELSE IF buf[1] \notin {0, 1} \/ buf[2] \notin {0, 1}
         THEN [ok |-> FALSE, value |-> DefaultData]
    ELSE IF Len(buf) > 1 + 1 + 4 THEN [ok |-> FALSE, value |-> DefaultData]
    ELSE [ok |-> TRUE,
          value |-> InsuranceContractData(buf[1] = 1, buf[2] = 1,
                                          from_le_bytes(SubSeq(buf, 3, 6)))]

\* BorshSerialize::serialize into the account's data slice: the encoding
\* overwrites the front of the slice; fails when the slice is too short
serialize(d, buf) ==
    LET bytes == try_to_vec(d) IN
    IF Len(buf) < Len(bytes) THEN [ok |-> FALSE, buf |-> buf]
    ELSE [ok |-> TRUE, buf |-> bytes \o SubSeq(buf, Len(bytes) + 1, Len(buf))]

(***************************************************************************)
(* instruction.rs: instruction codec.                                      *)
(***************************************************************************)
SaveInsuranceContract(id) ==
    [tag |-> "SaveInsuranceContract", insurance_contract_id |-> id]

CloseInsuranceContract ==
    [tag |-> "CloseInsuranceContract", insurance_contract_id |-> 0]

\* variant: every tag other than 0 decodes to CloseInsuranceContract
unpack_other_tags_close(input) ==
    IF Len(input) = 0 THEN [res |-> "InvalidInstruction", value |-> CloseInsuranceContract]
    ELSE LET tag == Head(input)
             rest == Tail(input) IN
         IF tag = 0 THEN
            IF Len(rest) < 4 THEN [res |-> "Panic", value |-> CloseInsuranceContract]
            ELSE [res |-> "Ok",
                  value |-> SaveInsuranceContract(from_le_bytes(SubSeq(rest, 1, 4)))]
         ELSE [res |-> "Ok", value |-> CloseInsuranceContract]

\* unpack: split_first, then match on the tag.  rest.split_at(4) panics
\* when fewer than 4 bytes follow tag 0.
unpack(input) ==
    IF Len(input) = 0 THEN [res |-> "InvalidInstruction", value |-> CloseInsuranceContract]
    ELSE LET tag == Head(input)
             rest == Tail(input) IN
         IF tag = 0 THEN
            IF Len(rest) < 4 THEN [res |-> "Panic", value |-> CloseInsuranceContract]
            ELSE [res |-> "Ok",
                  value |-> SaveInsuranceContract(from_le_bytes(SubSeq(rest, 1, 4)))]
         ELSE IF tag = 1 THEN [res |-> "Ok", value |-> CloseInsuranceContract]
         ELSE [res |-> "InvalidInstruction", value |-> CloseInsuranceContract]

\* variant: the two tags are exchanged
pack_tags_swapped(ins) ==
    IF ins.tag = "SaveInsuranceContract"
    THEN <<1>> \o to_le_bytes(ins.insurance_contract_id)
    ELSE <<0>>

\* variant: the identifier is written big-endian
pack_big_endian(ins) ==
    IF ins.tag = "SaveInsuranceContract"
    THEN LET b == to_le_bytes(ins.insurance_contract_id) IN <<0, b[4], b[3], b[2], b[1]>>
    ELSE <<1>>

pack(ins) ==
    IF ins.tag = "SaveInsuranceContract"
    THEN <<0>> \o to_le_bytes(ins.insurance_contract_id)
    ELSE <<1>>

(***************************************************************************)
(* Host facts used by the processor.                                       *)
(***************************************************************************)
\* Rent::default().minimum_balance(data_len):
\* (ACCOUNT_STORAGE_OVERHEAD + data_len) * lamports_per_byte_year * threshold
minimum_balance(data_len) == (128 + data_len) * 3480 * 2

\* variant: a balance equal to the minimum is not exempt
is_exempt_strict(lamports, data_len) == lamports > minimum_balance(data_len)

\* Rent::is_exempt
is_exempt(lamports, data_len) == lamports >= minimum_balance(data_len)

\* Rent::from_account_info: the account must be the rent sysvar
rent_from_account_info(info) == info.key = RentSysvarId

\* crate::check_program_account
check_program_account(program_id) ==
    IF program_id # ProgramId THEN "IncorrectProgramId" ELSE "Ok"

(***************************************************************************)
(* processor.rs                                                            *)
(***************************************************************************)
Outcome(res, store) == [res |-> res, data |-> store]

\* variant: the two state checks are left out
save_checks_without_state_checks(program_id, insurance_contract_authority, insurance_contract_account, rent_info, decoded) ==
    IF ~insurance_contract_authority.is_signer THEN "MissingRequiredSignature"
    ELSE IF insurance_contract_account.owner # program_id THEN "IncorrectProgramId"
    ELSE IF ~rent_from_account_info(rent_info) THEN "InvalidArgument"
    ELSE IF ~is_exempt(insurance_contract_account.lamports, INSURANCE_CONTRACT_DATA_LEN)
        THEN "AccountNotRentExempt"
    ELSE IF ~decoded.ok THEN "BorshIoError"
    ELSE "Ok"

\* variant: the owner is checked before the signature
save_checks_owner_first(program_id, insurance_contract_authority, insurance_contract_account, rent_info, decoded) ==
    IF insurance_contract_account.owner # program_id THEN "IncorrectProgramId"
    ELSE IF ~insurance_contract_authority.is_signer THEN "MissingRequiredSignature"
    ELSE IF ~rent_from_account_info(rent_info) THEN "InvalidArgument"
    ELSE IF ~is_exempt(insurance_contract_account.lamports, INSURANCE_CONTRACT_DATA_LEN)
        THEN "AccountNotRentExempt"
    ELSE IF ~decoded.ok THEN "BorshIoError"
    ELSE IF decoded.value.is_initialized THEN "AlreadyInitialized"
    ELSE IF decoded.value.is_closed THEN "AlreadyClosed"
    ELSE "Ok"

\* variant: the initialized check is left out
save_checks_without_initialized_check(program_id, insurance_contract_authority, insurance_contract_account, rent_info, decoded) ==
    IF ~insurance_contract_authority.is_signer THEN "MissingRequiredSignature"
    ELSE IF insurance_contract_account.owner # program_id THEN "IncorrectProgramId"
    ELSE IF ~rent_from_account_info(rent_info) THEN "InvalidArgument"
    ELSE IF ~is_exempt(insurance_contract_account.lamports, INSURANCE_CONTRACT_DATA_LEN)
        THEN "AccountNotRentExempt"
    ELSE IF ~decoded.ok THEN "BorshIoError"
    ELSE IF decoded.value.is_closed THEN "AlreadyClosed"
    ELSE "Ok"

\* variant: the closed check comes before the initialized check
save_checks_closed_first(program_id, insurance_contract_authority, insurance_contract_account, rent_info, decoded) ==
    IF ~insurance_contract_authority.is_signer THEN "MissingRequiredSignature"
    ELSE IF insurance_contract_account.owner # program_id THEN "IncorrectProgramId"
    ELSE IF ~rent_from_account_info(rent_info) THEN "InvalidArgument"
    ELSE IF ~is_exempt(insurance_contract_account.lamports, INSURANCE_CONTRACT_DATA_LEN)
        THEN "AccountNotRentExempt"
    ELSE IF ~decoded.ok THEN "BorshIoError"
    ELSE IF decoded.value.is_closed THEN "AlreadyClosed"
    ELSE IF decoded.value.is_initialized THEN "AlreadyInitialized"
    ELSE "Ok"

\* the checks of process_save_insurance_contract, in the order of the code;
\* decoded is the result of try_from_slice on the account data
save_checks(program_id, insurance_contract_authority, insurance_contract_account, rent_info, decoded) ==
    IF ~insurance_contract_authority.is_signer THEN "MissingRequiredSignature"
    ELSE IF insurance_contract_account.owner # program_id THEN "IncorrectProgramId"
    ELSE IF ~rent_from_account_info(rent_info) THEN "InvalidArgument"
    ELSE IF ~is_exempt(insurance_contract_account.lamports, INSURANCE_CONTRACT_DATA_LEN)
        THEN "AccountNotRentExempt"
    ELSE IF ~decoded.ok THEN "BorshIoError"
    ELSE IF decoded.value.is_initialized THEN "AlreadyInitialized"
    ELSE IF decoded.value.is_closed THEN "AlreadyClosed"
    ELSE "Ok"

\* variant: the identifier is not assigned
save_update_without_identifier(insurance_contract_data, insurance_contract_id) ==
    [insurance_contract_data EXCEPT !.is_initialized = TRUE,
                                    !.is_closed = FALSE]

\* the field assignments of process_save_insurance_contract
save_update(insurance_contract_data, insurance_contract_id) ==
    [insurance_contract_data EXCEPT !.is_initialized = TRUE,
                                    !.is_closed = FALSE,
                                    !.insurance_contract_id = insurance_contract_id]

\* variant: the record is written before the checks are evaluated
process_save_insurance_contract_write_first(program_id, accounts, insurance_contract_id, store) ==
    IF Len(accounts) < 3 THEN Outcome("NotEnoughAccountKeys", store)
    ELSE
    LET insurance_contract_authority == accounts[1]
        insurance_contract_account == accounts[2]
        rent_info == accounts[3]
        buf == store[insurance_contract_account.key]
        decoded == try_from_slice(buf)
        checked == save_checks(program_id, insurance_contract_authority,
                               insurance_contract_account, rent_info, decoded)
        written == serialize(save_update(decoded.value, insurance_contract_id), buf)
        stored == [store EXCEPT ![insurance_contract_account.key] = written.buf]
    IN
    IF ~decoded.ok THEN Outcome(checked, store)
    ELSE IF ~written.ok THEN Outcome("BorshIoError", store)
    ELSE Outcome(checked, stored)

process_save_insurance_contract(program_id, accounts, insurance_contract_id, store) ==
    IF Len(accounts) < 3 THEN Outcome("NotEnoughAccountKeys", store)
    ELSE
    LET insurance_contract_authority == accounts[1]
        insurance_contract_account == accounts[2]
        rent_info == accounts[3]
        buf == store[insurance_contract_account.key]
        decoded == try_from_slice(buf)
        checked == save_checks(program_id, insurance_contract_authority,
                               insurance_contract_account, rent_info, decoded)
        written == serialize(save_update(decoded.value, insurance_contract_id), buf)
    IN
    IF checked # "Ok" THEN Outcome(checked, store)
    ELSE IF ~written.ok THEN Outcome("BorshIoError", store)
    ELSE Outcome("Ok", [store EXCEPT ![insurance_contract_account.key] = written.buf])

\* variant: the closed check is left out
close_checks_without_closed_check(program_id, insurance_contract_authority, insurance_contract_account, decoded) ==
    IF ~insurance_contract_authority.is_signer THEN "MissingRequiredSignature"
    ELSE IF insurance_contract_account.owner # program_id THEN "IncorrectProgramId"
    ELSE IF ~decoded.ok THEN "BorshIoError"
    ELSE IF ~decoded.value.is_initialized THEN "NotInitialized"
    ELSE "Ok"

\* variant: the initialized check is left out
close_checks_without_initialized_check(program_id, insurance_contract_authority, insurance_contract_account, decoded) ==
    IF ~insurance_contract_authority.is_signer THEN "MissingRequiredSignature"
    ELSE IF insurance_contract_account.owner # program_id THEN "IncorrectProgramId"
    ELSE IF ~decoded.ok THEN "BorshIoError"
    ELSE IF decoded.value.is_closed THEN "AlreadyClosed"
    ELSE "Ok"

\* variant: the closed check comes before the initialized check
close_checks_closed_first(program_id, insurance_contract_authority, insurance_contract_account, decoded) ==
    IF ~insurance_contract_authority.is_signer THEN "MissingRequiredSignature"
    ELSE IF insurance_contract_account.owner # program_id THEN "IncorrectProgramId"
    ELSE IF ~decoded.ok THEN "BorshIoError"
    ELSE IF decoded.value.is_closed THEN "AlreadyClosed"
    ELSE IF ~decoded.value.is_initialized THEN "NotInitialized"
    ELSE "Ok"

\* variant: Close demands the rent-exempt balance as Initialize does
close_checks_with_funding_check(program_id, insurance_contract_authority, insurance_contract_account, decoded) ==
    IF ~insurance_contract_authority.is_signer THEN "MissingRequiredSignature"
    ELSE IF insurance_contract_account.owner # program_id THEN "IncorrectProgramId"
    ELSE IF ~is_exempt(insurance_contract_account.lamports, INSURANCE_CONTRACT_DATA_LEN)
        THEN "AccountNotRentExempt"
    ELSE IF ~decoded.ok THEN "BorshIoError"
    ELSE IF ~decoded.value.is_initialized THEN "NotInitialized"
    ELSE IF decoded.value.is_closed THEN "AlreadyClosed"
    ELSE "Ok"

\* variant: Close is reserved to one fixed authority key
close_checks_fixed_authority(program_id, insurance_contract_authority, insurance_contract_account, decoded) ==
    IF ~insurance_contract_authority.is_signer THEN "MissingRequiredSignature"
    ELSE IF insurance_contract_authority.key # 1 THEN "MissingRequiredSignature"
    ELSE IF insurance_contract_account.owner # program_id THEN "IncorrectProgramId"
    ELSE IF ~decoded.ok THEN "BorshIoError"
    ELSE IF ~decoded.value.is_initialized THEN "NotInitialized"
    ELSE IF decoded.value.is_closed THEN "AlreadyClosed"
    ELSE "Ok"

\* the checks of process_close_insurance_contract, in the order of the code
close_checks(program_id, insurance_contract_authority, insurance_contract_account, decoded) ==
    IF ~insurance_contract_authority.is_signer THEN "MissingRequiredSignature"
    ELSE IF insurance_contract_account.owner # program_id THEN "IncorrectProgramId"
    ELSE IF ~decoded.ok THEN "BorshIoError"
    ELSE IF ~decoded.value.is_initialized THEN "NotInitialized"
    ELSE IF decoded.value.is_closed THEN "AlreadyClosed"
    ELSE "Ok"

\* variant: a fresh closed record is written instead of the updated one
close_update_fresh_record(insurance_contract_data) ==
    InsuranceContractData(TRUE, TRUE, 0)

\* the field assignment of process_close_insurance_contract
close_update(insurance_contract_data) ==
    [insurance_contract_data EXCEPT !.is_closed = TRUE]

\* variant: the closed record is written to every record account
process_close_insurance_contract_every_record(program_id, accounts, store) ==
    IF Len(accounts) < 2 THEN Outcome("NotEnoughAccountKeys", store)
    ELSE
    LET insurance_contract_authority == accounts[1]
        insurance_contract_account == accounts[2]
        buf == store[insurance_contract_account.key]
        decoded == try_from_slice(buf)
        checked == close_checks(program_id, insurance_contract_authority,
                                insurance_contract_account, decoded)
        written == serialize(close_update(decoded.value), buf)
    IN
    IF checked # "Ok" THEN Outcome(checked, store)
    ELSE IF ~written.ok THEN Outcome("BorshIoError", store)
    ELSE Outcome("Ok", [r \in DOMAIN store |-> written.buf])

process_close_insurance_contract(program_id, accounts, store) ==
    IF Len(accounts) < 2 THEN Outcome("NotEnoughAccountKeys", store)
    ELSE
    LET insurance_contract_authority == accounts[1]
        insurance_contract_account == accounts[2]
        buf == store[insurance_contract_account.key]
        decoded == try_from_slice(buf)
        checked == close_checks(program_id, insurance_contract_authority,
                                insurance_contract_account, decoded)
        written == serialize(close_update(decoded.value), buf)
    IN
    IF checked # "Ok" THEN Outcome(checked, store)
    ELSE IF ~written.ok THEN Outcome("BorshIoError", store)
    ELSE Outcome("Ok", [store EXCEPT ![insurance_contract_account.key] = written.buf])

\* variant: the authority is examined before the instruction bytes are decoded
process_accounts_first(program_id, accounts, instruction_data, store) ==
    IF check_program_account(program_id) # "Ok"
        THEN Outcome(check_program_account(program_id), store)
    ELSE IF Len(accounts) < 2 THEN Outcome("NotEnoughAccountKeys", store)
    ELSE IF ~accounts[1].is_signer THEN Outcome("MissingRequiredSignature", store)
    ELSE
    LET instruction == unpack(instruction_data) IN
    IF instruction.res # "Ok" THEN Outcome(instruction.res, store)
    ELSE IF instruction.value.tag = "SaveInsuranceContract"
        THEN process_save_insurance_contract(
                program_id, accounts, instruction.value.insurance_contract_id, store)
    ELSE process_close_insurance_contract(program_id, accounts, store)

process(program_id, accounts, instruction_data, store) ==
    IF check_program_account(program_id) # "Ok"
        THEN Outcome(check_program_account(program_id), store)
    ELSE
    LET instruction == unpack(instruction_data) IN
    IF instruction.res # "Ok" THEN Outcome(instruction.res, store)
    ELSE IF instruction.value.tag = "SaveInsuranceContract"
        THEN process_save_insurance_contract(
                program_id, accounts, instruction.value.insurance_contract_id, store)
    ELSE process_close_insurance_contract(program_id, accounts, store)

(***************************************************************************)
(* Inputs a caller can hand to Processor::process.                         *)
(***************************************************************************)
AccountInfo(k, s, o, l) == [key |-> k, is_signer |-> s, owner |-> o, lamports |-> l]

Fundings ==
    { minimum_balance(INSURANCE_CONTRACT_DATA_LEN) - d : d \in 0..MaxShortfall }
    \cup { minimum_balance(INSURANCE_CONTRACT_DATA_LEN) + 100 }

AuthorityInfos ==
    { AccountInfo(k, s, SystemProgramId, 0) : k \in Authorities, s \in BOOLEAN }

RecordInfos(R) ==
    { AccountInfo(r, FALSE, o, l) :
        r \in R, o \in {ProgramId, SystemProgramId}, l \in Fundings }

RentInfos ==
    { AccountInfo(k, FALSE, SystemProgramId, 0) : k \in {RentSysvarId, ClockSysvarId} }

AccountLists(R) ==
    {<<>>}
    \cup { <<a>> : a \in AuthorityInfos }
    \cup { <<a, d>> : a \in AuthorityInfos, d \in RecordInfos(R) }
    \cup { <<a, d, s>> : a \in AuthorityInfos, d \in RecordInfos(R), s \in RentInfos }

ProgramIds == {ProgramId, SystemProgramId}

Instructions ==
    { pack(SaveInsuranceContract(id)) : id \in Ids }
    \cup { pack(CloseInsuranceContract) }
    \cup { <<>>, <<2>>, <<0, 1, 2>> }

ZeroBuffer(n) == [i \in 1..n |-> 0]

(***************************************************************************)
(* The state machine: one record account, allocated zero-filled, and       *)
(* arbitrary calls of Processor::process against it.  before, call and     *)
(* result record the account data before the last call, its inputs and     *)
(* what it returned.                                                       *)
(***************************************************************************)
NoCall == [program_id |-> ProgramId, accounts |-> <<>>, instruction_data |-> <<>>]

\* pending counts the calls each submitter has still to issue and log what
\* became of the calls applied so far; both are idle unless submitters run
Submitters == 1..NumSubmitters

NoPending == [s \in Submitters |-> 0]

NoLog == [okSaves |-> 0, okCloses |-> 0, failures |-> 0, saver |-> 0, closer |-> 0,
          closeBeforeSave |-> FALSE]

\* codec holds one application of the codecs: an input, the function applied
\* to it and what it gave; it is idle while the processor is exercised
NoCodec == [kind |-> "none", input |-> <<>>, fn |-> "none", output |-> <<>>]

Init ==
    /\ data = [r \in {"A"} |-> ZeroBuffer(INSURANCE_CONTRACT_DATA_LEN)]
    /\ before = data
    /\ call = NoCall
    /\ result = "None"
    /\ codec = NoCodec
    /\ pending = NoPending
    /\ log = NoLog

Process ==
    \E program_id \in ProgramIds, accounts \in AccountLists(DOMAIN data),
       instruction_data \in Instructions :
        LET out == process(program_id, accounts, instruction_data, data) IN
        /\ data' = out.data
        /\ before' = data
        /\ call' = [program_id |-> program_id, accounts |-> accounts,
                    instruction_data |-> instruction_data]
        /\ result' = out.res
        /\ UNCHANGED <<codec, pending, log>>

Next == Process

Spec == Init /\ [][Next]_vars

(***************************************************************************)
(* The same calls applied to an account holding an arbitrary buffer: the   *)
(* processor as a function of its inputs, whatever the record bytes are.   *)
(***************************************************************************)
AnyBuffers ==
    { <<i, c>> \o to_le_bytes(id) : i \in 0..1, c \in 0..1, id \in {0, IdOf(1)} }
    \cup { ZeroBuffer(INSURANCE_CONTRACT_DATA_LEN - 1),
           ZeroBuffer(INSURANCE_CONTRACT_DATA_LEN + 1),
           <<2, 0, 0, 0, 0, 0>>, <<1, 2, 0, 0, 0, 0>> }

InitAny ==
    /\ data \in [{"A"} -> AnyBuffers]
    /\ before = data
    /\ call = NoCall
    /\ result = "None"
    /\ codec = NoCodec
    /\ pending = NoPending
    /\ log = NoLog

SpecAny == InitAny /\ [][Next]_vars

(***************************************************************************)
(* The codecs as functions: the initial state draws an input (instruction  *)
(* bytes, an instruction, a record or a record buffer) and the actions     *)
(* apply unpack, pack, try_to_vec and try_from_slice to it, the decoders   *)
(* also to what the encoders produced.                                     *)
(***************************************************************************)
SeqsUpTo(A, n) == UNION { [1..k -> A] : k \in 0..n }

WireInputs == SeqsUpTo({0, 1, 2, 127}, MaxWireLen)

BufferInputs == SeqsUpTo({0, 1}, MaxBufLen)

CodecIds == Ids \cup {0, 1, 256, 65536, 16777216, 2147483392}

Operations ==
    { SaveInsuranceContract(id) : id \in CodecIds } \cup { CloseInsuranceContract }

RecordValues ==
    { InsuranceContractData(i, c, id) : i \in BOOLEAN, c \in BOOLEAN, id \in CodecIds }

CodecInput(kind, x) == [kind |-> kind, input |-> x, fn |-> "none", output |-> <<>>]

InitCodec ==
    /\ data = [r \in {"A"} |-> ZeroBuffer(INSURANCE_CONTRACT_DATA_LEN)]
    /\ before = data
    /\ call = NoCall
    /\ result = "None"
    /\ \/ \E w \in WireInputs : codec = CodecInput("wire", w)
       \/ \E op \in Operations : codec = CodecInput("operation", op)
       \/ \E r \in RecordValues : codec = CodecInput("record", r)
       \/ \E b \in BufferInputs : codec = CodecInput("buffer", b)
    /\ pending = NoPending
    /\ log = NoLog

Unpack ==
    /\ codec.kind = "wire" /\ codec.fn = "none"
    /\ codec' = [codec EXCEPT !.fn = "unpack", !.output = unpack(codec.input)]
    /\ UNCHANGED <<data, before, call, result, pending, log>>

Pack ==
    /\ codec.kind = "operation" /\ codec.fn = "none"
    /\ codec' = [codec EXCEPT !.fn = "pack", !.output = pack(codec.input)]
    /\ UNCHANGED <<data, before, call, result, pending, log>>

UnpackPacked ==
    /\ codec.kind = "operation" /\ codec.fn = "pack"
    /\ codec' = [codec EXCEPT !.fn = "unpack_pack", !.output = unpack(codec.output)]
    /\ UNCHANGED <<data, before, call, result, pending, log>>

TryToVec ==
    /\ codec.kind = "record" /\ codec.fn = "none"
    /\ codec' = [codec EXCEPT !.fn = "try_to_vec", !.output = try_to_vec(codec.input)]
    /\ UNCHANGED <<data, before, call, result, pending, log>>

TryFromSliceEncoded ==
    /\ codec.kind = "record" /\ codec.fn = "try_to_vec"
    /\ codec' = [codec EXCEPT !.fn = "try_from_slice_try_to_vec",
                              !.output = try_from_slice(codec.output)]
    /\ UNCHANGED <<data, before, call, result, pending, log>>

TryFromSlice ==
    /\ codec.kind = "buffer" /\ codec.fn = "none"
    /\ codec' = [codec EXCEPT !.fn = "try_from_slice",
                              !.output = try_from_slice(codec.input)]
    /\ UNCHANGED <<data, before, call, result, pending, log>>

NextCodec ==
    \/ Unpack
    \/ Pack
    \/ UnpackPacked
    \/ TryToVec
    \/ TryFromSliceEncoded
    \/ TryFromSlice

SpecCodec == InitCodec /\ [][NextCodec]_vars

(***************************************************************************)
(* Several submitters against one record.  Each submitter issues MaxCalls  *)
(* instructions built by save_insurance_contract or                        *)
(* close_insurance_contract and signed by itself; the host applies one     *)
(* submitted instruction at a time, each as one call of process.           *)
(***************************************************************************)
\* instruction.rs: the instruction builders; the authority is the signer, and
\* the record account is the one the allocator created: owned by the program
\* and funded with the rent-exempt minimum
save_insurance_contract(insurance_contract_authority, insurance_contract_account, insurance_contract_id) ==
    [accounts |-> << AccountInfo(insurance_contract_authority, TRUE, SystemProgramId, 0),
                     AccountInfo(insurance_contract_account, FALSE, ProgramId,
                                 minimum_balance(INSURANCE_CONTRACT_DATA_LEN)),
                     AccountInfo(RentSysvarId, FALSE, SystemProgramId, 0) >>,
     data |-> pack(SaveInsuranceContract(insurance_contract_id))]

close_insurance_contract(insurance_contract_authority, insurance_contract_account) ==
    [accounts |-> << AccountInfo(insurance_contract_authority, TRUE, SystemProgramId, 0),
                     AccountInfo(insurance_contract_account, FALSE, ProgramId,
                                 minimum_balance(INSURANCE_CONTRACT_DATA_LEN)) >>,
     data |-> pack(CloseInsuranceContract)]

SubmittedBy(s) ==
    { save_insurance_contract(s, "A", id) : id \in Ids }
    \cup { close_insurance_contract(s, "A") }

Logged(s, instruction, res) ==
    IF res # "Ok" THEN [log EXCEPT !.failures = @ + 1]
    ELSE IF instruction.tag = "SaveInsuranceContract"
        THEN [log EXCEPT !.okSaves = @ + 1, !.saver = s]
    ELSE [log EXCEPT !.okCloses = @ + 1, !.closer = s,
                     !.closeBeforeSave = @ \/ log.okSaves = 0]

InitSubmitters ==
    /\ data = [r \in {"A"} |-> ZeroBuffer(INSURANCE_CONTRACT_DATA_LEN)]
    /\ before = data
    /\ call = NoCall
    /\ result = "None"
    /\ codec = NoCodec
    /\ pending = [s \in Submitters |-> MaxCalls]
    /\ log = NoLog

Submit(s) ==
    /\ pending[s] > 0
    /\ \E instruction \in SubmittedBy(s) :
        LET out == process(ProgramId, instruction.accounts, instruction.data, data) IN
        /\ data' = out.data
        /\ before' = data
        /\ call' = [program_id |-> ProgramId, accounts |-> instruction.accounts,
                    instruction_data |-> instruction.data]
        /\ result' = out.res
        /\ pending' = [pending EXCEPT ![s] = @ - 1]
        /\ log' = Logged(s, unpack(instruction.data).value, out.res)
        /\ UNCHANGED codec

NextSubmitters == \E s \in Submitters : Submit(s)

SpecSubmitters == InitSubmitters /\ [][NextSubmitters]_vars

(***************************************************************************)
(* Authorities: the submitters again, but a call may reach the program     *)
(* with or without the signature of the authority it names.  log keeps     *)
(* which authority the successful calls named.                             *)
(***************************************************************************)
SubmitAs(s) ==
    /\ pending[s] > 0
    /\ \E instruction \in SubmittedBy(s), is_signer \in BOOLEAN :
        LET accounts == [instruction.accounts EXCEPT ![1].is_signer = is_signer]
            out == process(ProgramId, accounts, instruction.data, data)
        IN
        /\ data' = out.data
        /\ before' = data
        /\ call' = [program_id |-> ProgramId, accounts |-> accounts,
                    instruction_data |-> instruction.data]
        /\ result' = out.res
        /\ pending' = [pending EXCEPT ![s] = @ - 1]
        /\ log' = Logged(s, unpack(instruction.data).value, out.res)
        /\ UNCHANGED codec

NextAuthorities == \E s \in Submitters : SubmitAs(s)

SpecAuthorities == InitSubmitters /\ [][NextAuthorities]_vars

(***************************************************************************)
(* Records: two record accounts, allocated zero-filled, and calls that     *)
(* name one of them, signed or not, owned by the program or not.           *)
(***************************************************************************)
Records == {"A", "B"}

RecordCalls(r) ==
    LET built == { save_insurance_contract("X", r, id) : id \in Ids }
                 \cup { close_insurance_contract("X", r) }
    IN
    { [instruction EXCEPT !.accounts[1].is_signer = is_signer,
                          !.accounts[2].owner = owner] :
        instruction \in built, is_signer \in BOOLEAN,
        owner \in {ProgramId, SystemProgramId} }

InitRecords ==
    /\ data = [r \in Records |-> ZeroBuffer(INSURANCE_CONTRACT_DATA_LEN)]
    /\ before = data
    /\ call = NoCall
    /\ result = "None"
    /\ codec = NoCodec
    /\ pending = NoPending
    /\ log = NoLog

ProcessRecord(r) ==
    \E instruction \in RecordCalls(r) :
        LET out == process(ProgramId, instruction.accounts, instruction.data, data) IN
        /\ data' = out.data
        /\ before' = data
        /\ call' = [program_id |-> ProgramId, accounts |-> instruction.accounts,
                    instruction_data |-> instruction.data]
        /\ result' = out.res
        /\ UNCHANGED <<codec, pending, log>>

NextRecords == \E r \in Records : ProcessRecord(r)

SpecRecords == InitRecords /\ [][NextRecords]_vars

(***************************************************************************)
(* Vocabulary of the properties.                                           *)
(***************************************************************************)
\* the lifecycle state a record buffer stands for
StateOf(buf) ==
    LET d == try_from_slice(buf) IN
    IF ~d.ok THEN "Malformed"
    ELSE IF ~d.value.is_initialized /\ ~d.value.is_closed THEN "Uninitialized"
    ELSE IF d.value.is_initialized /\ ~d.value.is_closed THEN "Initialized"
    ELSE IF d.value.is_initialized /\ d.value.is_closed THEN "Closed"
    ELSE "ClosedNotInitialized"

RecordOf(buf) == try_from_slice(buf).value

\* the last call reached process_save_insurance_contract / process_close_insurance_contract
Called == result # "None"

LastInstruction == unpack(call.instruction_data)

IsSaveCall ==
    /\ Called
    /\ call.program_id = ProgramId
    /\ LastInstruction.res = "Ok"
    /\ LastInstruction.value.tag = "SaveInsuranceContract"

IsCloseCall ==
    /\ Called
    /\ call.program_id = ProgramId
    /\ LastInstruction.res = "Ok"
    /\ LastInstruction.value.tag = "CloseInsuranceContract"

SaveId == LastInstruction.value.insurance_contract_id

\* facts about the accounts of the last call (used only where the list is long enough)
Authorized == call.accounts[1].is_signer
OwnerMatches == call.accounts[2].owner = ProgramId
Funded == call.accounts[2].lamports >= minimum_balance(INSURANCE_CONTRACT_DATA_LEN)
Target == call.accounts[2].key
RentAccountValid == call.accounts[3].key = RentSysvarId

\* an Initialize call that passes the authorization, owner and funding checks
GoodSaveCall ==
    /\ IsSaveCall
    /\ Len(call.accounts) = 3
    /\ Authorized /\ OwnerMatches /\ RentAccountValid /\ Funded

\* a Close call that passes the authorization and owner checks
GoodCloseCall ==
    /\ IsCloseCall
    /\ Len(call.accounts) >= 2
    /\ Authorized /\ OwnerMatches

(***************************************************************************)
(* C1: from a zero-filled record, the only steps that change the record    *)
(* are Uninitialized --Initialize--> Initialized and                       *)
(* Initialized --Close--> Closed, both returning Ok; every other call      *)
(* returns a failure and leaves the record as it was; Closed is terminal.  *)
(***************************************************************************)
C1_Step ==
    \A r \in DOMAIN data :
        LET s == StateOf(data[r])
            t == StateOf(data'[r])
            ins == unpack(call'.instruction_data)
        IN
        /\ s \in {"Uninitialized", "Initialized", "Closed"}
        /\ data'[r] # data[r] =>
              /\ result' = "Ok"
              /\ \/ s = "Uninitialized" /\ t = "Initialized"
                                        /\ ins.value.tag = "SaveInsuranceContract"
                 \/ s = "Initialized" /\ t = "Closed"
                                      /\ ins.value.tag = "CloseInsuranceContract"
        /\ data' = data => result' # "Ok"
        /\ s = "Closed" => data'[r] = data[r]

C1_Lifecycle == [][C1_Step]_vars

C1_Witness ==
    /\ GoodCloseCall
    /\ StateOf(before[Target]) = "Uninitialized"
    /\ result = "NotInitialized"
    /\ data = before

(***************************************************************************)
(* C2: in every reachable state the record decodes and closed implies      *)
(* initialized.                                                            *)
(***************************************************************************)
C2_ClosedImpliesInitialized ==
    \A r \in DOMAIN data :
        /\ try_from_slice(data[r]).ok
        /\ RecordOf(data[r]).is_closed => RecordOf(data[r]).is_initialized

C2_Witness ==
    /\ IsCloseCall
    /\ result = "Ok"
    /\ RecordOf(data[Target]).is_closed

(***************************************************************************)
(* C3: once the record is initialized, every later state has the same      *)
(* identifier (and the record stays initialized), whatever call is made.   *)
(***************************************************************************)
C3_Step ==
    \A r \in DOMAIN data :
        RecordOf(data[r]).is_initialized =>
            /\ RecordOf(data'[r]).is_initialized
            /\ RecordOf(data'[r]).insurance_contract_id
                  = RecordOf(data[r]).insurance_contract_id

C3_IdentifierImmutable == [][C3_Step]_vars

C3_Witness ==
    /\ IsSaveCall
    /\ Len(call.accounts) = 3
    /\ RecordOf(before[Target]).is_initialized
    /\ RecordOf(before[Target]).is_closed
    /\ SaveId # RecordOf(before[Target]).insurance_contract_id
    /\ RecordOf(data[Target]).insurance_contract_id
          = RecordOf(before[Target]).insurance_contract_id

(***************************************************************************)
(* C4: once the record is closed, no call changes any byte of it.          *)
(***************************************************************************)
C4_Step ==
    \A r \in DOMAIN data :
        (try_from_slice(data[r]).ok /\ RecordOf(data[r]).is_closed)
            => data'[r] = data[r]

C4_ClosedIsFrozen == [][C4_Step]_vars

C4_Witness ==
    /\ GoodCloseCall
    /\ StateOf(before[Target]) = "Closed"
    /\ data = before

(***************************************************************************)
(* C5: a call that does not return Ok leaves the record bytes as they      *)
(* were before the call.                                                   *)
(***************************************************************************)
C5_FailureChangesNothing ==
    (Called /\ result # "Ok") => data = before

C5_Witness ==
    /\ IsSaveCall
    /\ result = "AccountNotRentExempt"
    /\ before[Target] = ZeroBuffer(INSURANCE_CONTRACT_DATA_LEN)
    /\ data = before

(***************************************************************************)
(* C6: an Initialize call given its three accounts returns the error of    *)
(* the first failing check in the order signature, owner, rent exemption,  *)
(* already initialized, already closed; it returns Ok exactly when all     *)
(* five pass.  Checked for arbitrary record buffers.                       *)
(***************************************************************************)
C6_SaveErrorOrder ==
    (IsSaveCall /\ Len(call.accounts) = 3) =>
        LET d == try_from_slice(before[Target])
            upToFunding == Authorized /\ OwnerMatches /\ RentAccountValid /\ Funded
        IN
        /\ ~Authorized => result = "MissingRequiredSignature"
        /\ (Authorized /\ ~OwnerMatches) => result = "IncorrectProgramId"
        /\ (Authorized /\ OwnerMatches /\ RentAccountValid /\ ~Funded)
              => result = "AccountNotRentExempt"
        /\ (upToFunding /\ d.ok /\ d.value.is_initialized)
              => result = "AlreadyInitialized"
        /\ (upToFunding /\ d.ok /\ ~d.value.is_initialized /\ d.value.is_closed)
              => result = "AlreadyClosed"
        /\ result = "Ok" <=>
              (upToFunding /\ d.ok /\ ~d.value.is_initialized /\ ~d.value.is_closed)

C6_Witness ==
    /\ GoodSaveCall
    /\ StateOf(before[Target]) = "ClosedNotInitialized"
    /\ result = "AlreadyClosed"

(***************************************************************************)
(* C7: a Close call given its two accounts returns the error of the first  *)
(* failing check in the order signature, owner, not initialized, already   *)
(* closed; it returns Ok exactly when all four pass.  Checked for          *)
(* arbitrary record buffers.                                               *)
(***************************************************************************)
C7_CloseErrorOrder ==
    (IsCloseCall /\ Len(call.accounts) >= 2) =>
        LET d == try_from_slice(before[Target]) IN
        /\ ~Authorized => result = "MissingRequiredSignature"
        /\ (Authorized /\ ~OwnerMatches) => result = "IncorrectProgramId"
        /\ (Authorized /\ OwnerMatches /\ d.ok /\ ~d.value.is_initialized)
              => result = "NotInitialized"
        /\ (Authorized /\ OwnerMatches /\ d.ok /\ d.value.is_initialized
                /\ d.value.is_closed)
              => result = "AlreadyClosed"
        /\ result = "Ok" <=>
              (Authorized /\ OwnerMatches /\ d.ok /\ d.value.is_initialized
                  /\ ~d.value.is_closed)

C7_Witness ==
    /\ GoodCloseCall
    /\ StateOf(before[Target]) = "ClosedNotInitialized"
    /\ result = "NotInitialized"

(***************************************************************************)
(* C8: a successful Initialize(id) acted on a record with both flags       *)
(* false and leaves exactly LEN bytes decoding to                          *)
(* {initialized: true, closed: false, identifier: id}; no other record     *)
(* changes.  Checked for arbitrary record buffers.                         *)
(***************************************************************************)
C8_SaveEffect ==
    (IsSaveCall /\ result = "Ok") =>
        /\ ~RecordOf(before[Target]).is_initialized
        /\ ~RecordOf(before[Target]).is_closed
        /\ Len(data[Target]) = INSURANCE_CONTRACT_DATA_LEN
        /\ try_from_slice(data[Target])
              = [ok |-> TRUE, value |-> InsuranceContractData(TRUE, FALSE, SaveId)]
        /\ \A r \in DOMAIN data \ {Target} : data[r] = before[r]

C8_Witness ==
    /\ IsSaveCall
    /\ result = "Ok"
    /\ SaveId = 11223344
    /\ call.accounts[2].lamports = minimum_balance(INSURANCE_CONTRACT_DATA_LEN)
    /\ before[Target] = ZeroBuffer(INSURANCE_CONTRACT_DATA_LEN)
    /\ RecordOf(data[Target]) = InsuranceContractData(TRUE, FALSE, 11223344)

(***************************************************************************)
(* C9: a successful Close acted on {initialized: true, closed: false, id}  *)
(* and leaves {initialized: true, closed: true, id}: only the byte of the  *)
(* closed flag differs.                                                    *)
(***************************************************************************)
C9_CloseEffect ==
    (IsCloseCall /\ result = "Ok") =>
        LET b == RecordOf(before[Target])
            a == try_from_slice(data[Target])
        IN
        /\ b.is_initialized /\ ~b.is_closed
        /\ a.ok
        /\ a.value = InsuranceContractData(TRUE, TRUE, b.insurance_contract_id)
        /\ Len(data[Target]) = Len(before[Target])
        /\ \A i \in 1..Len(data[Target]) :
              i # 2 => data[Target][i] = before[Target][i]

C9_Witness ==
    /\ IsCloseCall
    /\ result = "Ok"
    /\ RecordOf(before[Target]) = InsuranceContractData(TRUE, FALSE, 11223344)
    /\ RecordOf(data[Target]) = InsuranceContractData(TRUE, TRUE, 11223344)

(***************************************************************************)
(* C10: when a successful Initialize is followed by another Initialize of  *)
(* the same record that is authorized, owner-matching and funded, the      *)
(* second returns AlreadyInitialized and the identifier stays that of the  *)
(* first call, whether the two identifiers are equal or not.               *)
(***************************************************************************)
C10_Step ==
    (GoodSaveCall /\ result = "Ok" /\ GoodSaveCall' /\ Target' = Target) =>
        /\ result' = "AlreadyInitialized"
        /\ RecordOf(data'[Target]).insurance_contract_id = SaveId

C10_SecondInitializeFails == [][C10_Step]_vars

C10_Witness ==
    /\ GoodSaveCall
    /\ result = "AlreadyInitialized"
    /\ StateOf(before[Target]) = "Initialized"
    /\ SaveId # RecordOf(data[Target]).insurance_contract_id

(***************************************************************************)
(* C11: an authorized, owner-matching Close of a record that was never     *)
(* initialized returns NotInitialized; once the record has been            *)
(* initialized and closed, every such Close returns AlreadyClosed.  From   *)
(* the zero-filled record, never initialized is the state Uninitialized    *)
(* and initialized-then-closed is the state Closed.                        *)
(***************************************************************************)
C11_CloseFailures ==
    GoodCloseCall =>
        /\ StateOf(before[Target]) = "Uninitialized" => result = "NotInitialized"
        /\ StateOf(before[Target]) = "Closed" => result = "AlreadyClosed"

C11_Witness ==
    /\ GoodCloseCall
    /\ StateOf(before[Target]) = "Closed"
    /\ result = "AlreadyClosed"

(***************************************************************************)
(* C12: an authorized Initialize of a zero-filled, program-owned record    *)
(* succeeds when the funding equals the rent-exempt minimum for 6 bytes,   *)
(* and with any funding below the minimum returns AccountNotRentExempt     *)
(* and leaves the record all-zero.                                         *)
(***************************************************************************)
C12_FundingBoundary ==
    ( /\ IsSaveCall
      /\ Len(call.accounts) = 3
      /\ Authorized /\ OwnerMatches /\ RentAccountValid
      /\ before[Target] = ZeroBuffer(INSURANCE_CONTRACT_DATA_LEN) ) =>
        LET lamports == call.accounts[2].lamports
            minimum == (128 + 6) * 3480 * 2
        IN
        /\ lamports = minimum => result = "Ok"
        /\ lamports < minimum =>
              /\ result = "AccountNotRentExempt"
              /\ data[Target] = ZeroBuffer(INSURANCE_CONTRACT_DATA_LEN)

C12_Witness ==
    /\ GoodSaveCall
    /\ before[Target] = ZeroBuffer(INSURANCE_CONTRACT_DATA_LEN)
    /\ call.accounts[2].lamports = (128 + 6) * 3480 * 2
    /\ result = "Ok"
    /\ StateOf(data[Target]) = "Initialized"

(***************************************************************************)
(* C19 (as claimed): an authorized, owner-matching, funded Initialize of   *)
(* a record that has been closed returns AlreadyClosed.                    *)
(***************************************************************************)
C19_InitializeAfterCloseIsAlreadyClosed ==
    (GoodSaveCall /\ StateOf(before[Target]) = "Closed") => result = "AlreadyClosed"

(***************************************************************************)
(* C19 (amended): an authorized, owner-matching, funded Initialize of a    *)
(* record that has been closed returns AlreadyInitialized: the closed      *)
(* record is still initialized and the initialized check comes first.      *)
(***************************************************************************)
C19_InitializeAfterCloseIsAlreadyInitialized ==
    (GoodSaveCall /\ StateOf(before[Target]) = "Closed") =>
        result = "AlreadyInitialized"

C19_Witness ==
    /\ GoodSaveCall
    /\ StateOf(before[Target]) = "Closed"
    /\ result = "AlreadyInitialized"
    /\ data = before

(***************************************************************************)
(* C13: unpack of bytes whose tag is 0 and that carry fewer than 4 bytes   *)
(* after the tag returns the error InvalidInstruction.                     *)
(***************************************************************************)
C13_ShortPayloadIsInvalidInstruction ==
    ( /\ codec.fn = "unpack"
      /\ Len(codec.input) \in 1..4
      /\ codec.input[1] = 0 ) =>
        codec.output.res = "InvalidInstruction"

(***************************************************************************)
(* C14: unpack of the empty byte string, and of any byte string whose      *)
(* first byte is neither 0 nor 1, returns InvalidInstruction whatever      *)
(* bytes follow.                                                           *)
(***************************************************************************)
C14_UnknownTagIsInvalidInstruction ==
    ( /\ codec.fn = "unpack"
      /\ \/ Len(codec.input) = 0
         \/ codec.input[1] \notin {0, 1} ) =>
        codec.output.res = "InvalidInstruction"

C14_Witness ==
    /\ codec.fn = "unpack"
    /\ Len(codec.input) = 5
    /\ codec.input[1] = 2
    /\ codec.output.res = "InvalidInstruction"

(***************************************************************************)
(* C15: for every instruction op, unpack(pack(op)) succeeds and gives op.  *)
(***************************************************************************)
C15_UnpackPackRoundTrip ==
    codec.fn = "unpack_pack" =>
        /\ codec.output.res = "Ok"
        /\ codec.output.value = codec.input

C15_Witness ==
    /\ codec.fn = "unpack_pack"
    /\ codec.input = SaveInsuranceContract(11223344)
    /\ codec.output.value = SaveInsuranceContract(11223344)

(***************************************************************************)
(* C16: pack of SaveInsuranceContract{id} is 5 bytes, the tag 0 followed   *)
(* by id least significant byte first; pack of CloseInsuranceContract is   *)
(* the single byte 1.                                                      *)
(***************************************************************************)
C16_PackLayout ==
    codec.fn = "pack" =>
        LET out == codec.output IN
        IF codec.input.tag = "SaveInsuranceContract"
        THEN /\ Len(out) = 5
             /\ out[1] = 0
             /\ \A i \in 2..5 : out[i] \in 0..255
             /\ out[2] + 256 * out[3] + 65536 * out[4] + 16777216 * out[5]
                   = codec.input.insurance_contract_id
        ELSE out = <<1>>

C16_Witness ==
    /\ codec.fn = "pack"
    /\ codec.input = SaveInsuranceContract(11223344)
    /\ codec.output = <<0, 48, 65, 171, 0>>

(***************************************************************************)
(* C17: try_to_vec of a record is 6 bytes: the initialized flag, the       *)
(* closed flag, then the identifier least significant byte first;          *)
(* decoding those bytes gives the record back; six zero bytes decode to    *)
(* {initialized: false, closed: false, identifier: 0}.                     *)
(***************************************************************************)
C17_RecordCodec ==
    /\ codec.fn = "try_to_vec" =>
          LET out == codec.output
              r == codec.input
          IN
          /\ Len(out) = 6
          /\ out[1] = (IF r.is_initialized THEN 1 ELSE 0)
          /\ out[2] = (IF r.is_closed THEN 1 ELSE 0)
          /\ \A i \in 3..6 : out[i] \in 0..255
          /\ out[3] + 256 * out[4] + 65536 * out[5] + 16777216 * out[6]
                = r.insurance_contract_id
    /\ codec.fn = "try_from_slice_try_to_vec" =>
          codec.output = [ok |-> TRUE, value |-> codec.input]
    /\ (codec.fn = "try_from_slice" /\ codec.input = <<0, 0, 0, 0, 0, 0>>) =>
          codec.output = [ok |-> TRUE,
                          value |-> [is_initialized |-> FALSE, is_closed |-> FALSE,
                                     insurance_contract_id |-> 0]]

C17_Witness ==
    /\ codec.fn = "try_from_slice_try_to_vec"
    /\ codec.input = InsuranceContractData(TRUE, FALSE, 11223344)
    /\ codec.output.ok
    /\ codec.output.value = codec.input

(***************************************************************************)
(* C18 (as claimed): try_from_slice fails exactly for the buffers shorter  *)
(* than LEN = 6 bytes; no other buffer is rejected.                        *)
(***************************************************************************)
C18_DecodeFailsOnlyWhenShort ==
    codec.fn = "try_from_slice" =>
        (~codec.output.ok <=> Len(codec.input) < 6)

(***************************************************************************)
(* C18 (amended): try_from_slice fails for every buffer shorter than LEN   *)
(* and for every buffer longer than LEN; every buffer of exactly LEN bytes *)
(* whose two flag bytes are 0 or 1 decodes.                                *)
(***************************************************************************)
C18_DecodeFailsOffLength ==
    codec.fn = "try_from_slice" =>
        /\ Len(codec.input) # 6 => ~codec.output.ok
        /\ ( /\ Len(codec.input) = 6
             /\ codec.input[1] \in {0, 1}
             /\ codec.input[2] \in {0, 1} ) => codec.output.ok

C18_Witness ==
    /\ codec.fn = "try_from_slice"
    /\ Len(codec.input) = 7
    /\ ~codec.output.ok

(***************************************************************************)
(* C20: with several submitters whose calls the host applies one at a      *)
(* time, in every interleaving at most one Initialize and at most one      *)
(* Close succeed, no Close succeeds before an Initialize has, and between  *)
(* steps the record is always one of the three complete records: zeroed    *)
(* while nothing succeeded, initialized after the Initialize, closed       *)
(* after the Close.                                                        *)
(***************************************************************************)
C20_AtomicInterleavings ==
    /\ log.okSaves <= 1
    /\ log.okCloses <= 1
    /\ ~log.closeBeforeSave
    /\ \A r \in DOMAIN data :
        /\ Len(data[r]) = INSURANCE_CONTRACT_DATA_LEN
        /\ StateOf(data[r]) =
              (IF log.okCloses = 1 THEN "Closed"
               ELSE IF log.okSaves = 1 THEN "Initialized"
               ELSE "Uninitialized")

C20_Witness ==
    /\ \A s \in Submitters : pending[s] = 0
    /\ log.okSaves = 1
    /\ log.okCloses = 1
    /\ log.saver # log.closer
    /\ log.failures >= 2

(***************************************************************************)
(* C22: from a zero-filled record, over every sequence of calls, no        *)
(* Initialize call returns AlreadyClosed: a record that is closed is       *)
(* initialized too, so the initialized check answers first.                *)
(***************************************************************************)
C22_InitializeNeverAlreadyClosed ==
    IsSaveCall => result # "AlreadyClosed"

C22_Witness ==
    /\ IsSaveCall
    /\ Len(call.accounts) = 3
    /\ Authorized /\ OwnerMatches /\ RentAccountValid /\ Funded
    /\ RecordOf(before[Target]).is_closed
    /\ result # "AlreadyClosed"
    /\ result # "Ok"

(***************************************************************************)
(* C23: a call under the program's own id whose instruction bytes are      *)
(* empty or start with a byte other than 0 and 1 returns                   *)
(* InvalidInstruction and leaves every record as it was, whatever the      *)
(* accounts handed over and whatever the record holds.                     *)
(***************************************************************************)
C23_DecodingComesFirst ==
    ( /\ Called
      /\ call.program_id = ProgramId
      /\ \/ Len(call.instruction_data) = 0
         \/ call.instruction_data[1] \notin {0, 1} ) =>
        /\ result = "InvalidInstruction"
        /\ data = before

C23_Witness ==
    /\ Called
    /\ call.program_id = ProgramId
    /\ call.instruction_data = <<2>>
    /\ Len(call.accounts) = 3
    /\ ~Authorized /\ ~OwnerMatches /\ ~Funded
    /\ StateOf(before[Target]) = "Initialized"
    /\ result = "InvalidInstruction"
    /\ data = before

(***************************************************************************)
(* C24: a Close call that is authorized and names a program-owned,         *)
(* initialized, not closed record returns Ok and closes it whatever the    *)
(* balance of the record account is; and the result and the records of     *)
(* any Close call are those of the same call with any other balance.       *)
(***************************************************************************)
C24_CloseIgnoresFunding ==
    (IsCloseCall /\ Len(call.accounts) >= 2) =>
        /\ (Authorized /\ OwnerMatches /\ StateOf(before[Target]) = "Initialized") =>
              /\ result = "Ok"
              /\ StateOf(data[Target]) = "Closed"
        /\ \A lamports \in Fundings \cup {0} :
              LET accounts == [call.accounts EXCEPT ![2].lamports = lamports]
                  out == process(call.program_id, accounts, call.instruction_data, before)
              IN
              /\ out.res = result
              /\ out.data = data

C24_Witness ==
    /\ IsCloseCall
    /\ Len(call.accounts) >= 2
    /\ Authorized /\ OwnerMatches
    /\ ~Funded
    /\ StateOf(before[Target]) = "Initialized"
    /\ result = "Ok"
    /\ StateOf(data[Target]) = "Closed"

(***************************************************************************)
(* C25: the result and the records of a call are those of the same call    *)
(* naming any other authority key with the same is_signer flag; and a      *)
(* signed Close of an initialized, not closed record returns Ok and        *)
(* closes it when its authority is not the one the Initialize named.       *)
(***************************************************************************)
C25_AuthorityOnlyThroughIsSigner ==
    Called =>
        /\ \A key \in Submitters :
              LET accounts == [call.accounts EXCEPT ![1].key = key]
                  out == process(call.program_id, accounts, call.instruction_data, before)
              IN
              /\ out.res = result
              /\ out.data = data
        /\ ( /\ IsCloseCall
             /\ Authorized
             /\ StateOf(before[Target]) = "Initialized"
             /\ call.accounts[1].key # log.saver ) =>
              /\ result = "Ok"
              /\ StateOf(data[Target]) = "Closed"

C25_Witness ==
    /\ IsCloseCall
    /\ Authorized
    /\ StateOf(before[Target]) = "Initialized"
    /\ log.okSaves = 1
    /\ log.saver = 1
    /\ call.accounts[1].key = 2
    /\ result = "Ok"
    /\ StateOf(data[Target]) = "Closed"

(***************************************************************************)
(* C21: with two records, a call naming one record leaves the other as it  *)
(* was; its result and what it writes are the same whatever the other      *)
(* record holds; and two successive calls naming different records give    *)
(* the same results and the same records when applied in the other order.  *)
(***************************************************************************)
C21_Step ==
    LET named == call'.accounts[2].key IN
    /\ \A r \in Records \ {named} : data'[r] = data[r]
    /\ \A r \in Records \ {named}, buf \in AnyBuffers :
          LET out == process(call'.program_id, call'.accounts, call'.instruction_data,
                             [data EXCEPT ![r] = buf])
          IN
          /\ out.res = result'
          /\ out.data[named] = data'[named]
          /\ out.data[r] = buf
    /\ (Called /\ Target # named) =>
          LET second == process(call'.program_id, call'.accounts,
                                call'.instruction_data, before)
              first == process(call.program_id, call.accounts,
                               call.instruction_data, second.data)
          IN
          /\ second.res = result'
          /\ first.res = result
          /\ first.data = data'

C21_RecordsAreIndependent == [][C21_Step]_vars

C21_Witness ==
    /\ IsCloseCall
    /\ Target = "B"
    /\ result = "Ok"
    /\ StateOf(before["B"]) = "Initialized"
    /\ StateOf(data["B"]) = "Closed"
    /\ StateOf(data["A"]) = "Initialized"
    /\ data["A"] = before["A"]
    /\ RecordOf(data["A"]).insurance_contract_id # RecordOf(data["B"]).insurance_contract_id

====
